---- MODULE Spec2Model ----
(***************************************************************************)
(* Model of src/scraper.py: the scroll / extract / deduplicate loop of     *)
(* scrape_google_maps, its field resolvers and the normalisation helpers   *)
(* clean_phone_number, clean_field and clean_and_validate_url.             *)
(*                                                                         *)
(* Text is modelled character by character: a Python str is a sequence of  *)
(* one-character strings, so that strip, lower, split, substring tests,    *)
(* regular expressions and percent-decoding are computed as the code       *)
(* computes them.  Python's None is the value None below.                  *)
(***************************************************************************)
EXTENDS Integers, Sequences, FiniteSets, TLC

\* ------------------------------------------------------------------ bounds
\* Longest candidate URL, counted in parts of UrlParts.
MaxUrlParts == 3
\* Largest targetCount and maxExpansions a run is started with.
MaxTarget == 2
MaxScrolls == 2
\* Most listings the feed renders at once, and most changes it makes on its own.
MaxFeed == 3
MaxFeedEvents == 2

\* ------------------------------------------------------------- characters
None == <<"<None>">>
NA == <<"N", "/", "A">>

UpperLetters == <<"A","B","C","D","E","F","G","H","I","J","K","L","M",
                  "N","O","P","Q","R","S","T","U","V","W","X","Y","Z">>
LowerLetters == <<"a","b","c","d","e","f","g","h","i","j","k","l","m",
                  "n","o","p","q","r","s","t","u","v","w","x","y","z">>
Digits == {"0","1","2","3","4","5","6","7","8","9"}
Whitespace == {" ", "\n", "\r", "\t"}
Range(s) == {s[i] : i \in 1..Len(s)}

IsDigit(c) == c \in Digits
IsSpace(c) == c \in Whitespace

\* str.lower(), one character
LowerChar(c) ==
  IF \E i \in 1..26 : UpperLetters[i] = c
  THEN LowerLetters[CHOOSE i \in 1..26 : UpperLetters[i] = c]
  ELSE c
\* str.lower()
Lower(s) == [i \in 1..Len(s) |-> LowerChar(s[i])]

\* str.strip()
Strip(s) ==
  LET keep == {i \in 1..Len(s) : ~IsSpace(s[i])}
  IN IF keep = {} THEN <<>>
     ELSE LET lo == CHOOSE i \in keep : \A j \in keep : i <= j
              hi == CHOOSE i \in keep : \A j \in keep : j <= i
          IN SubSeq(s, lo, hi)

\* pat in s
Contains(s, pat) ==
  \E i \in 1..(Len(s) - Len(pat) + 1) : SubSeq(s, i, i + Len(pat) - 1) = pat
\* s.startswith(pat)
StartsWith(s, pat) == Len(s) >= Len(pat) /\ SubSeq(s, 1, Len(pat)) = pat
\* s.endswith(pat)
EndsWith(s, pat) ==
  Len(s) >= Len(pat) /\ SubSeq(s, Len(s) - Len(pat) + 1, Len(s)) = pat
\* s.find(c) for one character, 1-based, 0 when absent
FindChar(s, c) ==
  IF \E i \in 1..Len(s) : s[i] = c
  THEN CHOOSE i \in 1..Len(s) : s[i] = c /\ \A j \in 1..(i - 1) : s[j] # c
  ELSE 0
\* the part of s before / after the first c (s.split(c, 1))
Before(s, c) == IF FindChar(s, c) = 0 THEN s ELSE SubSeq(s, 1, FindChar(s, c) - 1)
After(s, c) == IF FindChar(s, c) = 0 THEN <<>> ELSE SubSeq(s, FindChar(s, c) + 1, Len(s))

\* s.replace('\n', ' ').replace('\r', ' ')
ReplaceNewlines(s) ==
  [i \in 1..Len(s) |-> IF s[i] \in {"\n", "\r"} THEN " " ELSE s[i]]

\* str.split(): the maximal runs of non-whitespace, in order
RECURSIVE SplitWords(_)
SplitWords(s) ==
  LET starts == {i \in 1..Len(s) : ~IsSpace(s[i])}
  IN IF starts = {} THEN <<>>
     ELSE LET lo == CHOOSE i \in starts : \A j \in starts : i <= j
              ends == {i \in lo..Len(s) : IsSpace(s[i])}
              hi == IF ends = {} THEN Len(s) + 1
                    ELSE CHOOSE i \in ends : \A j \in ends : i <= j
          IN <<SubSeq(s, lo, hi - 1)>> \o SplitWords(SubSeq(s, hi, Len(s)))

\* ' '.join(words)
RECURSIVE JoinSpace(_)
JoinSpace(words) ==
  IF words = <<>> THEN <<>>
  ELSE IF Len(words) = 1 THEN words[1]
  ELSE words[1] \o <<" ">> \o JoinSpace(Tail(words))

\* re.sub(r'[^\d]', '', s)
DigitsOnly(s) == SelectSeq(s, IsDigit)

\* -------------------------------------------------- normalisation helpers
\* clean_phone_number
clean_phone_number(phone) ==
  IF phone = None \/ phone = NA \/ phone = <<>> THEN NA
  ELSE LET cleaned == DigitsOnly(phone)
       IN IF cleaned # <<>> THEN cleaned ELSE NA

clean_field_KeepEmpty(value) ==
  IF value = None \/ value = NA THEN NA
  ELSE JoinSpace(SplitWords(ReplaceNewlines(Strip(value))))
\* clean_field
clean_field(value) ==
  IF value = None \/ value = <<>> \/ value = NA THEN NA
  ELSE LET cleaned == JoinSpace(SplitWords(ReplaceNewlines(Strip(value))))
       IN IF cleaned # <<>> THEN cleaned ELSE NA

\* ------------------------------------------------------- percent-decoding
HexDigits == Digits \cup {"a","b","c","d","e","f","A","B","C","D","E","F"}
\* The ASCII codes the candidate URLs use.
HexByte(h, l) ==
  CASE <<h, l>> = <<"2", "5">> -> "%"
    [] <<h, l>> = <<"2", "F">> -> "/"
    [] <<h, l>> = <<"3", "A">> -> ":"
    [] <<h, l>> = <<"3", "F">> -> "?"
    [] <<h, l>> = <<"3", "D">> -> "="
    [] <<h, l>> = <<"2", "6">> -> "&"
    [] <<h, l>> = <<"2", "E">> -> "."
    [] <<h, l>> = <<"4", "1">> -> "A"
    [] <<h, l>> = <<"2", "0">> -> " "
    [] OTHER -> "\\"

\* urllib.parse.unquote: every %XX with two hex digits is decoded once,
\* left to right; a % not followed by two hex digits is kept.
RECURSIVE unquote(_)
unquote(s) ==
  IF s = <<>> THEN <<>>
  ELSE IF s[1] = "%" /\ Len(s) >= 3 /\ s[2] \in HexDigits /\ s[3] \in HexDigits
       THEN <<HexByte(s[2], s[3])>> \o unquote(SubSeq(s, 4, Len(s)))
       ELSE <<s[1]>> \o unquote(Tail(s))

\* --------------------------------------------------------------- urlparse
SchemeChars ==
  Range(UpperLetters) \cup Range(LowerLetters) \cup Digits \cup {"+", "-", "."}
\* urlsplit: the scheme is what precedes the first ':' when that is a letter
\* followed by scheme characters
HasScheme(url) ==
  LET i == FindChar(url, ":")
  IN /\ i > 1
     /\ url[1] \in Range(UpperLetters) \cup Range(LowerLetters)
     /\ \A j \in 1..(i - 1) : url[j] \in SchemeChars
Scheme(url) == IF HasScheme(url) THEN Lower(Before(url, ":")) ELSE <<>>
AfterScheme(url) == IF HasScheme(url) THEN After(url, ":") ELSE url
\* urlsplit: a netloc follows '//' and ends at the first of '/', '?', '#'
HasNetloc(url) == StartsWith(AfterScheme(url), <<"/", "/">>)
Netloc(url) ==
  IF ~HasNetloc(url) THEN <<>>
  ELSE LET r == SubSeq(AfterScheme(url), 3, Len(AfterScheme(url)))
           stops == {i \in 1..Len(r) : r[i] \in {"/", "?", "#"}}
       IN IF stops = {} THEN r
          ELSE SubSeq(r, 1, (CHOOSE i \in stops : \A j \in stops : i <= j) - 1)
AfterNetloc(url) ==
  IF ~HasNetloc(url) THEN AfterScheme(url)
  ELSE SubSeq(AfterScheme(url), 3 + Len(Netloc(url)), Len(AfterScheme(url)))
\* urlsplit raises ValueError("Invalid IPv6 URL") on an unbalanced bracket
UrlparseRaises(url) ==
  LET n == Netloc(url)
  IN \/ ("[" \in Range(n) /\ "]" \notin Range(n))
     \/ ("]" \in Range(n) /\ "[" \notin Range(n))
\* urlparse(url).path and .query: the fragment is cut first, then the query
UrlPath(url) == Before(Before(AfterNetloc(url), "#"), "?")
UrlQuery(url) == After(Before(AfterNetloc(url), "#"), "?")
\* urlparse(url).hostname for a netloc: no userinfo, no port, lower case
Hostname(url) ==
  LET n == Netloc(url)
      h == IF FindChar(n, "@") = 0 THEN n ELSE After(n, "@")
  IN Lower(Before(h, ":"))

\* s.split('&')
RECURSIVE SplitAmp(_)
SplitAmp(s) ==
  IF FindChar(s, "&") = 0 THEN <<s>>
  ELSE <<Before(s, "&")>> \o SplitAmp(After(s, "&"))
PlusToSpace(s) == [i \in 1..Len(s) |-> IF s[i] = "+" THEN " " ELSE s[i]]
\* parse_qs(query)['q']: the decoded non-blank values of the fields named q
RECURSIVE QValuesOf(_)
QValuesOf(pairs) ==
  IF pairs = <<>> THEN <<>>
  ELSE LET p == pairs[1]
           keep == /\ FindChar(p, "=") # 0
                   /\ After(p, "=") # <<>>
                   /\ unquote(PlusToSpace(Before(p, "="))) = <<"q">>
       IN (IF keep THEN <<unquote(PlusToSpace(After(p, "=")))>> ELSE <<>>)
          \o QValuesOf(Tail(pairs))
parse_qs_q(query) == QValuesOf(SplitAmp(query))

\* re.search(r'[?&]q=([^&]+)', url).group(1), or None
RegexQ(url) ==
  LET hits == {i \in 1..(Len(url) - 3) :
                 /\ url[i] \in {"?", "&"}
                 /\ url[i + 1] = "q"
                 /\ url[i + 2] = "="
                 /\ url[i + 3] # "&"}
  IN IF hits = {} THEN None
     ELSE LET i == CHOOSE k \in hits : \A j \in hits : k <= j
          IN Before(SubSeq(url, i + 3, Len(url)), "&")

\* ------------------------------------------------ clean_and_validate_url
GOOGLE_COM == <<"g","o","o","g","l","e",".","c","o","m">>
HTTP == <<"h","t","t","p",":","/","/">>
HTTPS == <<"h","t","t","p","s",":","/","/">>
URL_Q == <<"/","u","r","l","?","q","=">>
JAVASCRIPT == <<"j","a","v","a","s","c","r","i","p","t",":">>
MAILTO == <<"m","a","i","l","t","o",":">>
TEL == <<"t","e","l",":">>
MAPS_GOOGLE == <<"M","a","p","s",".","G","o","o","g","l","e",".","c","o","m">>

\* the condition under which the code treats url as a redirect to clean
LooksLikeRedirect(url) ==
  Contains(url, GOOGLE_COM \o <<"/","u","r","l">>) \/ Contains(url, URL_Q)

\* "Clean Google redirect URLs": the stripped url after the unwrap
Unwrap(url) ==
  IF ~LooksLikeRedirect(url) THEN url
  ELSE IF UrlparseRaises(url)
       THEN IF RegexQ(url) # None THEN unquote(RegexQ(url)) ELSE url
       ELSE LET q == parse_qs_q(UrlQuery(url))
            IN IF q # <<>> THEN unquote(q[1]) ELSE url

IsGoogleUrl_CaseSensitive(url) ==
  Contains(url, GOOGLE_COM) \/ StartsWith(url, GOOGLE_COM \o <<"/">>)
\* "REJECT any Google URLs (even after cleaning)"
IsGoogleUrl(url) ==
  Contains(Lower(url), GOOGLE_COM) \/ StartsWith(url, GOOGLE_COM \o <<"/">>)

\* "Validate it's a real URL"
MentionsHttp(url) == Contains(url, HTTP) \/ Contains(url, HTTPS)
\* "Reject invalid URL types"
InvalidUrlType(url) ==
  StartsWith(url, JAVASCRIPT) \/ StartsWith(url, MAILTO) \/ StartsWith(url, TEL)

clean_and_validate_url(url) ==
  IF url = None \/ Strip(url) = <<>> THEN NA
  ELSE LET cleaned == Unwrap(Strip(url))
       IN IF IsGoogleUrl(cleaned) THEN NA
          ELSE IF ~MentionsHttp(cleaned) THEN NA
          ELSE IF InvalidUrlType(cleaned) THEN NA
          ELSE cleaned

\* ----------------------------------------------------- candidate URLs
UrlParts ==
  << HTTPS,
     HTTP,
     <<"f","t","p",":","/","/">>,
     JAVASCRIPT,
     GOOGLE_COM,
     <<"e","x",".","o","r","g">>,
     URL_Q,
     <<"&">>,
     <<"h","t","t","p","s","%","3","A","%","2","F","%","2","F">>,
     <<"%","2","5","4","1">>,
     MAPS_GOOGLE,
     <<" ">>,
     <<"[">>,
     HTTPS \o GOOGLE_COM \o URL_Q,
     HTTPS \o <<"e","x",".","o","r","g">> >>

RECURSIVE Concat(_)
Concat(parts) == IF parts = <<>> THEN <<>> ELSE parts[1] \o Concat(Tail(parts))
\* every concatenation of at most MaxUrlParts parts
UrlInputs ==
  {Concat([i \in DOMAIN ix |-> UrlParts[ix[i]]]) :
     ix \in UNION {[1..n -> 1..Len(UrlParts)] : n \in 0..MaxUrlParts}}

\* --------------------------------------------------------- field resolvers
\* A query on a listing returns text, None (the element or attribute is
\* absent: count() is 0) or Fail (the query raised: timeout, detached node).
Fail == <<"<Fail>">>
IsText(v) == v # None /\ v # Fail

\* all_text.split('\n')
RECURSIVE SplitLines(_)
SplitLines(s) ==
  IF FindChar(s, "\n") = 0 THEN <<s>>
  ELSE <<Before(s, "\n")>> \o SplitLines(After(s, "\n"))
IsNonEmpty(s) == s # <<>>
\* [line.strip() for line in all_text.split('\n') if line.strip()]
NonEmptyLines(text) ==
  LET ls == SplitLines(text)
  IN SelectSeq([i \in 1..Len(ls) |-> Strip(ls[i])], IsNonEmpty)

NameMissing_OnlySentinel(name) == name = NA
\* name == "N/A" or not name.strip()
NameMissing(name) == name = NA \/ Strip(name) = <<>>

\* 1. Business Name: h3, then div.fontHeadlineSmall, then the first
\* non-empty line of the listing's text
ResolveName(el) ==
  LET n1 == IF IsText(el.h3) THEN el.h3 ELSE NA
      n2 == IF NameMissing(n1) /\ IsText(el.headline) THEN el.headline ELSE n1
      n3 == IF NameMissing(n2) /\ IsText(el.text) /\ NonEmptyLines(el.text) # <<>>
            THEN NonEmptyLines(el.text)[1] ELSE n2
  IN n3

\* name.lower().strip()
NormalizedName(name) == Strip(Lower(name))

\* re.search(r'(\d+\.?\d*)', label).group(1), or None
RatingMatch(label) ==
  LET ds == {i \in 1..Len(label) : IsDigit(label[i])}
  IN IF ds = {} THEN None
     ELSE LET lo == CHOOSE i \in ds : \A j \in ds : i <= j
              RunEnd(from) ==
                LET stop == {i \in from..Len(label) : ~IsDigit(label[i])}
                IN IF stop = {} THEN Len(label)
                   ELSE (CHOOSE i \in stop : \A j \in stop : i <= j) - 1
              e1 == RunEnd(lo)
              e2 == IF e1 < Len(label) /\ label[e1 + 1] = "." THEN RunEnd(e1 + 2) ELSE e1
          IN SubSeq(label, lo, e2)

\* 2. Rating: the number in the stars label
ResolveRating(el) ==
  IF ~IsText(el.stars) THEN NA
  ELSE IF Contains(Lower(el.stars), <<"s","t","a","r">>) /\ RatingMatch(el.stars) # None
       THEN RatingMatch(el.stars)
       ELSE NA
\* 2. Reviews: read inside the try block of the stars lookup, so a stars
\* lookup that raises leaves it unread
ResolveReviews(el) ==
  IF el.stars = Fail THEN NA
  ELSE IF ~IsText(el.reviews) THEN NA
  ELSE DigitsOnly(el.reviews)

\* where r'(\+44\s?\d{4}|\d{5})\s?\d{6}' matches from position i: the last
\* position of the match, or 0
AllDigits(s, from, n) ==
  from + n - 1 <= Len(s) /\ \A k \in from..(from + n - 1) : IsDigit(s[k])
SkipSpace(s, k) == IF k <= Len(s) /\ s[k] \in Whitespace THEN k + 1 ELSE k
PhoneMatchEnd(s, i) ==
  LET afterPrefix ==
        IF i + 2 <= Len(s) /\ SubSeq(s, i, i + 2) = <<"+", "4", "4">>
        THEN IF AllDigits(s, SkipSpace(s, i + 3), 4) THEN SkipSpace(s, i + 3) + 4 ELSE 0
        ELSE IF AllDigits(s, i, 5) THEN i + 5 ELSE 0
  IN IF afterPrefix = 0 THEN 0
     ELSE IF AllDigits(s, SkipSpace(s, afterPrefix), 6)
          THEN SkipSpace(s, afterPrefix) + 5
          ELSE 0
\* re.search(...).group(0), or None
PhoneMatch(s) ==
  LET hits == {i \in 1..Len(s) : PhoneMatchEnd(s, i) # 0}
  IN IF hits = {} THEN None
     ELSE LET i == CHOOSE k \in hits : \A j \in hits : k <= j
          IN SubSeq(s, i, PhoneMatchEnd(s, i))

\* 3. Phone: the first UK number in the card's text
ResolvePhone(el) ==
  IF ~IsText(el.text) THEN NA
  ELSE IF PhoneMatch(el.text) # None THEN PhoneMatch(el.text) ELSE NA

\* the first candidate that clean_and_validate_url accepts, or N/A
RECURSIVE FirstValid(_)
FirstValid(cands) ==
  IF cands = <<>> THEN NA
  ELSE IF clean_and_validate_url(cands[1]) # NA THEN clean_and_validate_url(cands[1])
  ELSE FirstValid(Tail(cands))

ResolveWebsite_IgnoreHover(el) ==
  FirstValid(<<el.authority, el.labelled, el.button>> \o el.links \o <<el.retry>>)
ResolveWebsite_RetryFirst(el) ==
  IF ~el.hover THEN NA
  ELSE FirstValid(<<el.retry, el.authority, el.labelled, el.button>> \o el.links)
\* 3. Website: hover, then the three selectors, then every http(s) link,
\* then one retry; a failing hover leaves N/A
ResolveWebsite(el) ==
  IF ~el.hover THEN NA
  ELSE FirstValid(<<el.authority, el.labelled, el.button>> \o el.links \o <<el.retry>>)

\* leads.append({...})
LeadRecord(el) ==
  [ name    |-> clean_field(ResolveName(el)),
    phone   |-> clean_phone_number(ResolvePhone(el)),
    website |-> clean_field(ResolveWebsite(el)),
    rating  |-> clean_field(ResolveRating(el)),
    reviews |-> clean_field(ResolveReviews(el)) ]

\* The browser queries one loop iteration issues on its listing, in the
\* order the code issues them.
\* lines 198-223: each later name strategy runs only while the name is missing
NameQueries(el) ==
  LET n1 == IF IsText(el.h3) THEN el.h3 ELSE NA
      n2 == IF NameMissing(n1) /\ IsText(el.headline) THEN el.headline ELSE n1
  IN <<"h3">>
     \o (IF NameMissing(n1) THEN <<"headline">> ELSE <<>>)
     \o (IF NameMissing(n2) THEN <<"text">> ELSE <<>>)
\* lines 336-375: the selectors until one validates, then the scan of all
\* links, then the retry
WebsiteQueries(el) ==
  LET ok(c) == clean_and_validate_url(c) # NA
  IN <<"authority">> \o
     (IF ok(el.authority) THEN <<>>
      ELSE <<"labelled">> \o
        (IF ok(el.labelled) THEN <<>>
         ELSE <<"button">> \o
           (IF ok(el.button) THEN <<>>
            ELSE <<"links">> \o
              (IF \E i \in 1..Len(el.links) : ok(el.links[i]) THEN <<>>
               ELSE <<"retry">>))))
\* lines 242-379: stars, reviews inside the try of stars, the card text for
\* the phone, then hover and, once it succeeded, the website lookups
FieldQueries(el) ==
  <<"stars">>
  \o (IF el.stars # Fail THEN <<"reviews">> ELSE <<>>)
  \o <<"card_text", "hover">>
  \o (IF el.hover THEN <<"wait_for">> \o WebsiteQueries(el) ELSE <<>>)

\* ------------------------------------------------------- listing elements
\* The listings the feed can render.  Each is what the queries of one pass
\* over that listing return.
EX_ORG == <<"e","x",".","o","r","g">>
ENC_HTTPS == <<"h","t","t","p","s","%","3","A","%","2","F","%","2","F">>
PHONE_A == <<"0","1","6","1","1"," ","2","3","4","5","6","7">>
PHONE_B == <<"+","4","4"," ","1","6","1","1"," ","7","6","5","4","3","2">>
STARS_45 == <<"4",".","5"," ","s","t","a","r","s">>
STARS_5 == <<"5"," ","S","t","a","r","s">>

NoLinks ==
  [ hover |-> TRUE, authority |-> None, labelled |-> None, button |-> None,
    links |-> <<>>, retry |-> None ]

ElementPool ==
  << \* "Ab", rated, with a phone and a redirect-wrapped website
     [ NoLinks EXCEPT !.authority = HTTPS \o GOOGLE_COM \o URL_Q \o ENC_HTTPS \o EX_ORG \o <<"&">> ]
       @@ [ h3 |-> <<"A","b">>, headline |-> None,
            text |-> <<"A","b","\n">> \o PHONE_A,
            stars |-> STARS_45, reviews |-> <<"(","1","2",")">> ],
     \* "ab " from the headline class: the same business as "Ab"
     [ NoLinks EXCEPT !.labelled = HTTPS \o MAPS_GOOGLE,
                      !.links = <<HTTP \o EX_ORG>>,
                      !.retry = HTTPS \o EX_ORG ]
       @@ [ h3 |-> None, headline |-> <<"a","b"," ">>,
            text |-> <<"a","b"," ">>,
            stars |-> None, reviews |-> <<"7">> ],
     \* the heading text holds a line break
     [ NoLinks EXCEPT !.hover = FALSE, !.authority = HTTPS \o EX_ORG ]
       @@ [ h3 |-> <<"c","\n","d">>, headline |-> None,
            text |-> <<"c","\n","d","\n">> \o PHONE_B,
            stars |-> Fail, reviews |-> <<"3">> ],
     \* the same words on one line
     [ NoLinks EXCEPT !.retry = HTTPS \o EX_ORG ]
       @@ [ h3 |-> <<" ">>, headline |-> <<"C"," ","d">>,
            text |-> <<"C"," ","d">>,
            stars |-> STARS_5, reviews |-> <<"(","n","e","w",")">> ],
     \* an advert: no name anywhere
     NoLinks
       @@ [ h3 |-> <<>>, headline |-> Fail, text |-> <<" ","\n">>,
            stars |-> None, reviews |-> None ],
     \* named only by the first line of its text
     [ NoLinks EXCEPT !.button = <<"f","t","p",":","/","/">> \o HTTP ]
       @@ [ h3 |-> Fail, headline |-> None,
            text |-> <<" ","\n","E","f","\n">> \o STARS_45,
            stars |-> <<"s","t","a","r","s">>, reviews |-> Fail ] >>

\* what a locator past the end of the live feed gives: count() is 0, and
\* inner_text() and hover() time out
Detached ==
  [ NoLinks EXCEPT !.hover = FALSE ]
    @@ [ h3 |-> None, headline |-> None, text |-> Fail, stars |-> None, reviews |-> None ]

\* The simulated source of the end-to-end scenario: 70 listings, of which 5
\* have no name, 20 form 10 pairs of one name, and 45 are unique.
ScenarioIds == 101..170
TwoDigits(n) == <<(<<"0","1","2","3","4","5","6","7","8","9">>)[(n \div 10) + 1],
                  (<<"0","1","2","3","4","5","6","7","8","9">>)[(n % 10) + 1]>>
ScenarioNameless(k) == k % 14 = 0
\* the k-th listing is the n-th named one
ScenarioNamedRank(k) == k - (k \div 14)
\* ranks 1..20 pair up on names 1..10, ranks 21..65 carry names 11..55
ScenarioNameIndex(k) ==
  IF ScenarioNamedRank(k) <= 20 THEN (ScenarioNamedRank(k) + 1) \div 2
  ELSE ScenarioNamedRank(k) - 10
ScenarioElement(id) ==
  LET k == id - 100
      second == ScenarioNamedRank(k) <= 20 /\ ScenarioNamedRank(k) % 2 = 0
  IN IF ScenarioNameless(k)
     THEN NoLinks @@ [ h3 |-> None, headline |-> None, text |-> <<>>,
                       stars |-> None, reviews |-> None ]
     ELSE [ NoLinks EXCEPT !.authority =
              <<"/","u","r","l","?","q","=">> \o ENC_HTTPS \o <<"s">> \o TwoDigits(k) \o <<".","u","k">> ]
          @@ [ h3 |-> IF second THEN <<"l">> \o TwoDigits(ScenarioNameIndex(k)) \o <<" ">>
                      ELSE <<"L">> \o TwoDigits(ScenarioNameIndex(k)),
               headline |-> None,
               text |-> <<"L">> \o TwoDigits(ScenarioNameIndex(k)),
               stars |-> STARS_45, reviews |-> <<"(">> \o TwoDigits(k) \o <<")">> ]
ScenarioFeed == [k \in 1..70 |-> 100 + k]

PoolIds == 1..Len(ElementPool)
\* the id a locator past the end of the live feed stands for
DetachedId == 0
ListingIds == PoolIds \cup ScenarioIds \cup {DetachedId}
ElementOf(id) ==
  IF id \in ScenarioIds THEN ScenarioElement(id)
  ELSE IF id = DetachedId THEN Detached
  ELSE ElementPool[id]

\* what the resolvers give for each listing, computed once
ResolvedName == [id \in ListingIds |-> ResolveName(ElementOf(id))]
ResolvedNormalizedName == [id \in ListingIds |-> NormalizedName(ResolveName(ElementOf(id)))]
ResolvedRecord == [id \in ListingIds |-> LeadRecord(ElementOf(id))]
ResolvedNameQueries == [id \in ListingIds |-> NameQueries(ElementOf(id))]
ResolvedFieldQueries == [id \in ListingIds |-> FieldQueries(ElementOf(id))]

\* ------------------------------------------------------------------ state
VARIABLES
  pc,                   \* where scrape_google_maps is: "while", "for",
                        \* "after_pass", "final", "done" or "raised"
  target_unique_leads,  \* targetCount
  max_scrolls,          \* maxExpansions
  scroll_count,
  previous_count,
  processed_indices,
  leads,
  seen_leads,
  current_count,        \* len(listings) of the current pass
  index,                \* the for loop's position in listings
  persisted,            \* the rows handed to csv.DictWriter
  outcome,              \* "running", "saved", "no_data" or "raised"
  final_status,         \* the final status line: "none", "limit", "finished"
  feed,                 \* the listings the page renders now, by element id
  pending,              \* listings the source has not rendered yet
  reveal,               \* how many pending listings one scroll renders
  feed_events,          \* changes the feed has made on its own
  pass_count,           \* how often line 181 enumerated the listings
  expand_calls,         \* how often lines 415-430 asked the feed to scroll
  queries,              \* the browser queries issued on the listing of the
                        \* latest loop iteration of this pass, in order
  reflowed,             \* the feed has reordered or evicted a listing
  candidate,            \* raw_url: an href handed to clean_and_validate_url
  unwrapped,            \* that url after the redirect cleaning (300-313)
  website,              \* the Website field it gives
  url_pc                \* "idle", "input" before the call, "resolved" after

loop_vars == <<pc, target_unique_leads, max_scrolls, scroll_count, previous_count,
               processed_indices, leads, seen_leads, current_count, index,
               persisted, outcome, final_status, pass_count, expand_calls, queries>>
feed_vars == <<feed, pending, reveal, feed_events, reflowed>>
url_vars == <<candidate, unwrapped, website, url_pc>>
vars == <<loop_vars, feed_vars, url_vars>>

\* the program's own settings
TARGET_UNIQUE_LEADS == 60
MAX_SCROLLS == 30

\* lines 145-149 and 175-176
LoopInit ==
  /\ pc = "while"
  /\ scroll_count = 0
  /\ previous_count = 0
  /\ processed_indices = {}
  /\ leads = <<>>
  /\ seen_leads = {}
  /\ current_count = 0
  /\ index = 0
  /\ persisted = <<>>
  /\ outcome = "running"
  /\ final_status = "none"
  /\ pass_count = 0
  /\ expand_calls = 0
  /\ queries = <<>>
UrlIdle ==
  /\ candidate = None
  /\ unwrapped = None
  /\ website = None
  /\ url_pc = "idle"

\* run(targetCount, maxExpansions) on a feed that renders anything
Init ==
  /\ LoopInit
  /\ UrlIdle
  /\ target_unique_leads \in 1..MaxTarget
  /\ max_scrolls \in 1..MaxScrolls
  /\ feed \in {<<>>} \cup {<<e>> : e \in PoolIds}
  /\ pending = <<>>
  /\ reveal = 0
  /\ feed_events = 0
  /\ reflowed = FALSE

\* ------------------------------------------------------------ the loop
\* while len(leads) < target_unique_leads and scroll_count < max_scrolls
LoopCond_NoBudget == Len(leads) < target_unique_leads
LoopCond == Len(leads) < target_unique_leads /\ scroll_count < max_scrolls

TargetReached_Never == FALSE
\* if len(leads) >= target_unique_leads: break   (lines 188, 392, 404)
TargetReached == Len(leads) >= target_unique_leads

\* a step that touches neither the feed nor the resolver probe
FeedAndUrlUnchanged == UNCHANGED <<feed_vars, url_vars>>

\* listings = await page.locator('div[role="article"]').all()
EnterPass ==
  /\ FeedAndUrlUnchanged
  /\ pc = "while"
  /\ LoopCond
  /\ current_count' = Len(feed)
  /\ index' = 0
  /\ pass_count' = pass_count + 1
  /\ queries' = <<>>
  /\ pc' = "for"
  /\ UNCHANGED <<target_unique_leads, max_scrolls, scroll_count, previous_count,
                 processed_indices, leads, seen_leads, persisted, outcome, final_status, expand_calls>>

\* the enumeration raises (the page or browser is gone): nothing catches it
EnumerateRaises ==
  /\ FeedAndUrlUnchanged
  /\ UNCHANGED queries
  /\ pc = "while"
  /\ LoopCond
  /\ pc' = "raised"
  /\ outcome' = "raised"
  /\ UNCHANGED <<target_unique_leads, max_scrolls, scroll_count, previous_count,
                 processed_indices, leads, seen_leads, current_count, index,
                 persisted, final_status, pass_count, expand_calls>>

ExitLoop ==
  /\ FeedAndUrlUnchanged
  /\ UNCHANGED queries
  /\ pc = "while"
  /\ ~LoopCond
  /\ pc' = "final"
  /\ UNCHANGED <<target_unique_leads, max_scrolls, scroll_count, previous_count,
                 processed_indices, leads, seen_leads, current_count, index,
                 persisted, outcome, final_status, pass_count, expand_calls>>

\* listings[index] is page.locator(...).nth(index): each query resolves it
\* against the feed as it is now
Listing == IF index + 1 <= Len(feed) THEN feed[index + 1] ELSE DetachedId

InPass == pc = "for" /\ index < current_count /\ ~TargetReached
PassFrame == UNCHANGED <<pc, target_unique_leads, max_scrolls, scroll_count, previous_count,
                         current_count, persisted, outcome, final_status, pass_count, expand_calls>>

AlreadyProcessed_Never == FALSE
\* if index in processed_indices
AlreadyProcessed == index \in processed_indices

\* if index in processed_indices: continue
SkipProcessed ==
  /\ FeedAndUrlUnchanged
  /\ InPass
  /\ AlreadyProcessed
  /\ index' = index + 1
  /\ queries' = <<>>
  /\ UNCHANGED <<processed_indices, leads, seen_leads>>
  /\ PassFrame

SkipNameless_Unmarked ==
  /\ FeedAndUrlUnchanged
  /\ InPass
  /\ ~AlreadyProcessed
  /\ NameMissing(ResolvedName[Listing])
  /\ queries' = ResolvedNameQueries[Listing]
  /\ index' = index + 1
  /\ UNCHANGED <<processed_indices, leads, seen_leads>>
  /\ PassFrame
\* "Skip if we still don't have a name"
SkipNameless ==
  /\ FeedAndUrlUnchanged
  /\ InPass
  /\ ~AlreadyProcessed
  /\ NameMissing(ResolvedName[Listing])
  /\ queries' = ResolvedNameQueries[Listing]
  /\ processed_indices' = processed_indices \cup {index}
  /\ index' = index + 1
  /\ UNCHANGED <<leads, seen_leads>>
  /\ PassFrame

IsDuplicate_Never(normalized_name) == FALSE
\* if normalized_name in seen_leads
IsDuplicate(normalized_name) == normalized_name \in seen_leads

SkipDuplicate ==
  /\ FeedAndUrlUnchanged
  /\ InPass
  /\ ~AlreadyProcessed
  /\ ~NameMissing(ResolvedName[Listing])
  /\ IsDuplicate(ResolvedNormalizedName[Listing])
  /\ queries' = ResolvedNameQueries[Listing]
  /\ processed_indices' = processed_indices \cup {index}
  /\ index' = index + 1
  /\ UNCHANGED <<leads, seen_leads>>
  /\ PassFrame

\* lines 238-393: a new name; resolve the other fields and append
AcceptListing ==
  /\ FeedAndUrlUnchanged
  /\ InPass
  /\ ~AlreadyProcessed
  /\ ~NameMissing(ResolvedName[Listing])
  /\ ~IsDuplicate(ResolvedNormalizedName[Listing])
  /\ queries' = ResolvedNameQueries[Listing] \o ResolvedFieldQueries[Listing]
  /\ seen_leads' = seen_leads \cup {ResolvedNormalizedName[Listing]}
  /\ processed_indices' = processed_indices \cup {index}
  /\ leads' = Append(leads, ResolvedRecord[Listing])
  /\ index' = index + 1
  /\ PassFrame

\* the for loop ends: listings exhausted, or one of the two breaks
EndPass ==
  /\ FeedAndUrlUnchanged
  /\ UNCHANGED queries
  /\ pc = "for"
  /\ (index >= current_count \/ TargetReached)
  /\ pc' = "after_pass"
  /\ UNCHANGED <<target_unique_leads, max_scrolls, scroll_count, previous_count,
                 processed_indices, leads, seen_leads, current_count, index,
                 persisted, outcome, final_status, pass_count, expand_calls>>

\* lines 404-406
TargetBreak ==
  /\ FeedAndUrlUnchanged
  /\ UNCHANGED queries
  /\ pc = "after_pass"
  /\ TargetReached
  /\ pc' = "final"
  /\ UNCHANGED <<target_unique_leads, max_scrolls, scroll_count, previous_count,
                 processed_indices, leads, seen_leads, current_count, index,
                 persisted, outcome, final_status, pass_count, expand_calls>>

Take(s, n) == SubSeq(s, 1, IF n < Len(s) THEN n ELSE Len(s))
Drop(s, n) == SubSeq(s, (IF n < Len(s) THEN n ELSE Len(s)) + 1, Len(s))

ScrollCountAfter_OnGrowth ==
  IF current_count = previous_count THEN scroll_count ELSE scroll_count + 1
ScrollCountAfter == scroll_count + 1

Scroll_KeepHandles ==
  /\ pc = "after_pass"
  /\ ~TargetReached
  /\ previous_count' = current_count
  /\ scroll_count' = ScrollCountAfter
  /\ feed' = feed \o Take(pending, reveal)
  /\ pending' = Drop(pending, reveal)
  /\ expand_calls' = expand_calls + 1
  /\ index' = 0
  /\ pc' = "for"
  /\ UNCHANGED <<target_unique_leads, max_scrolls, processed_indices, leads, seen_leads,
                 current_count, persisted, outcome, final_status, pass_count>>
  /\ UNCHANGED <<reveal, feed_events, reflowed, url_vars, queries>>
\* lines 409-436: one of the three scroll calls works; the source renders
\* its next listings during the 3 second wait
Scroll ==
  /\ pc = "after_pass"
  /\ ~TargetReached
  /\ previous_count' = current_count
  /\ scroll_count' = ScrollCountAfter
  /\ feed' = feed \o Take(pending, reveal)
  /\ pending' = Drop(pending, reveal)
  /\ expand_calls' = expand_calls + 1
  /\ pc' = "while"
  /\ UNCHANGED <<target_unique_leads, max_scrolls, processed_indices, leads, seen_leads,
                 current_count, index, persisted, outcome, final_status, pass_count>>
  /\ UNCHANGED <<reveal, feed_events, reflowed, url_vars, queries>>

\* sidebar.evaluate, mouse.wheel and keyboard.press all raise: the last is
\* outside any try
ScrollRaises ==
  /\ FeedAndUrlUnchanged
  /\ UNCHANGED queries
  /\ pc = "after_pass"
  /\ ~TargetReached
  /\ expand_calls' = expand_calls + 1
  /\ pc' = "raised"
  /\ outcome' = "raised"
  /\ UNCHANGED <<target_unique_leads, max_scrolls, scroll_count, previous_count,
                 processed_indices, leads, seen_leads, current_count, index,
                 persisted, final_status, pass_count>>

FinalStatus_AfterAnyScroll == IF scroll_count > 0 THEN "limit" ELSE "finished"
\* lines 439-442
FinalStatus == IF scroll_count >= max_scrolls THEN "limit" ELSE "finished"

\* lines 445-453
SaveLeads ==
  /\ FeedAndUrlUnchanged
  /\ UNCHANGED queries
  /\ pc = "final"
  /\ leads # <<>>
  /\ persisted' = leads
  /\ outcome' = "saved"
  /\ final_status' = FinalStatus
  /\ pc' = "done"
  /\ UNCHANGED <<target_unique_leads, max_scrolls, scroll_count, previous_count,
                 processed_indices, leads, seen_leads, current_count, index, pass_count, expand_calls>>

\* lines 454-455
ReportNoData ==
  /\ FeedAndUrlUnchanged
  /\ UNCHANGED queries
  /\ pc = "final"
  /\ leads = <<>>
  /\ outcome' = "no_data"
  /\ final_status' = FinalStatus
  /\ pc' = "done"
  /\ UNCHANGED <<target_unique_leads, max_scrolls, scroll_count, previous_count,
                 processed_indices, leads, seen_leads, current_count, index,
                 persisted, pass_count, expand_calls>>

\* ------------------------------------------------------------ the feed
Running == pc \in {"while", "for", "after_pass"}
FeedMayChange == Running /\ feed_events < MaxFeedEvents

\* the feed renders one more listing
FeedGrow ==
  /\ UNCHANGED <<loop_vars, url_vars>>
  /\ FeedMayChange
  /\ Len(feed) < MaxFeed
  /\ \E e \in PoolIds : feed' = Append(feed, e)
  /\ feed_events' = feed_events + 1
  /\ UNCHANGED <<pending, reveal, reflowed>>

\* the feed swaps two neighbours
FeedReorder ==
  /\ UNCHANGED <<loop_vars, url_vars>>
  /\ FeedMayChange
  /\ \E i \in 1..(Len(feed) - 1) :
       /\ feed[i] # feed[i + 1]
       /\ feed' = [feed EXCEPT ![i] = feed[i + 1], ![i + 1] = feed[i]]
  /\ feed_events' = feed_events + 1
  /\ reflowed' = TRUE
  /\ UNCHANGED <<pending, reveal>>

\* the feed drops a listing it had rendered
FeedEvict ==
  /\ UNCHANGED <<loop_vars, url_vars>>
  /\ FeedMayChange
  /\ \E i \in 1..Len(feed) :
       feed' = SubSeq(feed, 1, i - 1) \o SubSeq(feed, i + 1, Len(feed))
  /\ feed_events' = feed_events + 1
  /\ reflowed' = TRUE
  /\ UNCHANGED <<pending, reveal>>

\* one step of scrape_google_maps that does not raise
Step ==
  \/ EnterPass
  \/ ExitLoop
  \/ SkipProcessed
  \/ SkipNameless
  \/ SkipDuplicate
  \/ AcceptListing
  \/ EndPass
  \/ TargetBreak
  \/ Scroll
  \/ SaveLeads
  \/ ReportNoData

Next ==
  \/ EnterPass
  \/ EnumerateRaises
  \/ ExitLoop
  \/ SkipProcessed
  \/ SkipNameless
  \/ SkipDuplicate
  \/ AcceptListing
  \/ EndPass
  \/ TargetBreak
  \/ Scroll
  \/ ScrollRaises
  \/ SaveLeads
  \/ ReportNoData
  \/ FeedGrow
  \/ FeedReorder
  \/ FeedEvict
Spec == Init /\ [][Next]_vars
\* the event loop resumes the coroutine whenever it can take a step
FairSpec == Spec /\ WF_vars(Step)

\* ------------------------------------------------- the end-to-end scenario
\* target 60, 30 scrolls, the 70 simulated listings rendered a batch at a
\* time, nothing failing and nothing reordered
ScenarioBatches == {7, 10, 35, 70}
ScenarioInit ==
  /\ LoopInit
  /\ UrlIdle
  /\ target_unique_leads = TARGET_UNIQUE_LEADS
  /\ max_scrolls = MAX_SCROLLS
  /\ reveal \in ScenarioBatches
  /\ feed = Take(ScenarioFeed, reveal)
  /\ pending = Drop(ScenarioFeed, reveal)
  /\ feed_events = 0
  /\ reflowed = FALSE
\* with 55 distinct names the target is out of reach and the result is never
\* empty, so TargetBreak and ReportNoData have no part in it
ScenarioNext ==
  \/ EnterPass
  \/ ExitLoop
  \/ SkipProcessed
  \/ SkipNameless
  \/ SkipDuplicate
  \/ AcceptListing
  \/ EndPass
  \/ Scroll
  \/ SaveLeads
ScenarioSpec == ScenarioInit /\ [][ScenarioNext]_vars

\* --------------------------------------------- the website resolver alone
UrlInit ==
  /\ LoopInit
  /\ target_unique_leads = TARGET_UNIQUE_LEADS
  /\ max_scrolls = MAX_SCROLLS
  /\ feed = <<>>
  /\ pending = <<>>
  /\ reveal = 0
  /\ feed_events = 0
  /\ reflowed = FALSE
  /\ candidate \in UrlInputs
  /\ unwrapped = None
  /\ website = None
  /\ url_pc = "input"

\* one call of clean_and_validate_url on the candidate, and the clean_field
\* of line 384 on what it returns
ResolveCandidate ==
  /\ url_pc = "input"
  /\ unwrapped' = IF Strip(candidate) = <<>> THEN None ELSE Unwrap(Strip(candidate))
  /\ website' = clean_field(clean_and_validate_url(candidate))
  /\ url_pc' = "resolved"
  /\ UNCHANGED <<candidate, loop_vars, feed_vars>>

UrlNext == ResolveCandidate
UrlSpec == UrlInit /\ [][UrlNext]_vars

\* ================================================================ claims
Terminated == pc \in {"done", "raised"}
LeadFields == {"name", "phone", "website", "rating", "reviews"}
\* the case-folded, trimmed name of a stored record
FoldedName(r) == Lower(Strip(r.name))
\* no two records share a folded name: as many folded names as records
DistinctNames ==
  Cardinality({FoldedName(leads[i]) : i \in 1..Len(leads)}) = Len(leads)
\* the host is the search engine's domain or a subdomain of it
HostIsGoogle(url) ==
  Hostname(url) = GOOGLE_COM \/ EndsWith(Hostname(url), <<".">> \o GOOGLE_COM)
\* a redirect wrapper of the search engine: its /url endpoint, absolute or
\* relative to its pages, carrying a q parameter
IsRedirectWrapper(url) ==
  /\ (HostIsGoogle(url) \/ (~HasScheme(url) /\ ~HasNetloc(url)))
  /\ UrlPath(url) = <<"/","u","r","l">>
  /\ parse_qs_q(UrlQuery(url)) # <<>>
\* the percent-decoded value of its q parameter
WrappedDestination(url) == parse_qs_q(UrlQuery(url))[1]

\* C1: under any behaviour of the feed the run eventually ends, and it never
\* issues more than max_scrolls scroll calls.
C1_TerminatesWithinBudget ==
  <>Terminated /\ [](expand_calls <= max_scrolls)
C1_Witness ==
  /\ pc = "done"
  /\ expand_calls = max_scrolls
  /\ Len(leads) < target_unique_leads
  /\ feed_events > 0
  /\ pass_count > 1

\* C2: no two records of the result hold the same case-folded, trimmed name.
C2_DedupInvariant == DistinctNames

\* C3: the result never shrinks and never holds more than target_unique_leads.
C3_MonotonicGrowth ==
  [][Len(leads') >= Len(leads)]_vars /\ [](Len(leads) <= target_unique_leads)
C3_Witness ==
  /\ pc = "for"
  /\ Len(leads) = target_unique_leads
  /\ Len(leads) >= 2
  /\ index < current_count
  /\ index < Len(feed)

\* C4: every record has the five fields, each a non-empty value without
\* surrounding or repeated whitespace, or N/A.
C4_SentinelCompleteness ==
  \A i \in 1..Len(leads) :
    /\ DOMAIN leads[i] = LeadFields
    /\ \A f \in LeadFields :
         /\ leads[i][f] \notin {<<>>, None, Fail}
         /\ Strip(leads[i][f]) = leads[i][f]
         /\ JoinSpace(SplitWords(leads[i][f])) = leads[i][f]
C4_Witness ==
  \E i \in 1..Len(leads) :
    /\ leads[i].name = <<"C"," ","d">>
    /\ leads[i].reviews = NA
    /\ leads[i].phone = NA

\* C5: every way the run ends with records hands them to the writer, and the
\* "no leads" report is made only for an empty result.
C5_EveryExitPersists ==
  /\ (Terminated /\ leads # <<>>) => (outcome = "saved" /\ persisted = leads)
  /\ outcome = "no_data" => leads = <<>>

\* C6: the scenario ends with exactly 60 records, names pairwise distinct and
\* none of them N/A.
C6_ScenarioYields60 ==
  pc = "done" =>
    /\ Len(leads) = 60
    /\ DistinctNames
    /\ \A i \in 1..Len(leads) : leads[i].name # NA
\* C6 amended: the scenario ends with exactly 55 records, one for each
\* distinct name of the source, names pairwise distinct and none N/A.
C6_ScenarioYields55 ==
  /\ Len(leads) <= 55
  /\ DistinctNames
  /\ \A i \in 1..Len(leads) : leads[i].name # NA
  /\ pc = "done" => (Len(leads) = 55 /\ persisted = leads)
C6_Witness ==
  /\ pc = "done"
  /\ Len(leads) = 55
  /\ reveal = 7
  /\ scroll_count = max_scrolls
  /\ pending = <<>>

C8_UnwrapIdempotent ==
  (url_pc = "resolved" /\ unwrapped # None) =>
    /\ ~IsRedirectWrapper(Strip(candidate)) => unwrapped = Strip(candidate)
    /\ IsRedirectWrapper(Strip(candidate)) => unwrapped = WrappedDestination(Strip(candidate))
    /\ Unwrap(unwrapped) = unwrapped

\* C9: an accepted website is an absolute url whose scheme is http or https.
C9_HttpSchemeOnly ==
  (url_pc = "resolved" /\ website # NA) =>
    /\ Scheme(website) \in {<<"h","t","t","p">>, <<"h","t","t","p","s">>}
    /\ HasNetloc(website)

\* C10: every scroll is followed by a pass before the loop ends: when the
\* loop has ended, the passes outnumber the scrolls.
C10_PassAfterEveryScroll ==
  pc \in {"final", "done"} => pass_count > scroll_count

\* a step of the for loop over one listing
LoopIteration == pc = "for" /\ index' = index + 1

\* C11: processed_indices only grows, also from one pass to the next, and an
\* index is resolved at most once: a loop iteration that issues any query is
\* at an index not yet in the set and puts it there, and an iteration at an
\* index already in the set issues no query and changes neither leads nor
\* seen_leads, whatever listing the feed shows at that position now.
C11_ProcessedOnce ==
  /\ [][processed_indices \subseteq processed_indices']_vars
  /\ [][(LoopIteration /\ queries' # <<>>) =>
          (index \notin processed_indices /\ processed_indices' = processed_indices \cup {index})]_vars
  /\ [][(LoopIteration /\ index \in processed_indices) =>
          (queries' = <<>> /\ leads' = leads /\ seen_leads' = seen_leads
             /\ processed_indices' = processed_indices)]_vars
\* a later pass has just skipped a processed position at which, after a
\* reflow, a named listing never seen before sits
C11_Witness ==
  /\ pc = "for"
  /\ pass_count > 1
  /\ reflowed
  /\ index > 0
  /\ index <= Len(feed)
  /\ (index - 1) \in processed_indices
  /\ queries = <<>>
  /\ ~NameMissing(ResolvedName[feed[index]])
  /\ ResolvedNormalizedName[feed[index]] \notin seen_leads
  /\ Len(leads) < target_unique_leads

\* the queries of the name strategies
NameQueryKinds == {"h3", "headline", "text"}

\* C12: a loop iteration on a listing whose name resolves to nothing, or whose
\* normalized name is already in seen_leads, leaves leads and seen_leads as
\* they were, issues only name queries (no hover, no other field), and
\* changes nothing but the loop position and processed_indices, to which it
\* adds the index.
C12_SkipLeavesResult ==
  [][(/\ LoopIteration
      /\ index \notin processed_indices
      /\ \/ ResolvedName[Listing] = NA
         \/ Strip(ResolvedName[Listing]) = <<>>
         \/ ResolvedNormalizedName[Listing] \in seen_leads)
     => /\ leads' = leads
        /\ seen_leads' = seen_leads
        /\ processed_indices' = processed_indices \cup {index}
        /\ \A i \in 1..Len(queries') : queries'[i] \in NameQueryKinds
        /\ UNCHANGED <<pc, scroll_count, previous_count, current_count, persisted,
                       outcome, final_status, pass_count, expand_calls,
                       target_unique_leads, max_scrolls>>]_vars
\* "ab " has just been dropped as a duplicate of the stored "Ab"
C12_Witness ==
  /\ pc = "for"
  /\ index > 0
  /\ index <= Len(feed)
  /\ feed[index] = 2
  /\ (index - 1) \in processed_indices
  /\ queries = <<"h3", "headline">>
  /\ Len(leads) = 1
  /\ leads[1].name = <<"A","b">>
  /\ seen_leads = {<<"a","b">>}

\* C13: after a pass that leaves the result under target the loop always
\* scrolls: its next step issues one scroll call, never ends the loop, and,
\* unless the scroll calls themselves raise, raises scroll_count by exactly one
\* and goes on to the next pass, whether or not the listing count stalled.
C13_StallKeepsScrolling ==
  /\ [](pc = "after_pass" /\ Len(leads) < target_unique_leads => scroll_count < max_scrolls)
  /\ [][(pc = "after_pass" /\ Len(leads) < target_unique_leads /\ pc' # pc) =>
          /\ expand_calls' = expand_calls + 1
          /\ pc' \in {"while", "raised"}
          /\ pc' = "while" => (scroll_count' = scroll_count + 1 /\ previous_count' = current_count)
          /\ leads' = leads]_vars
  /\ [][scroll_count' # scroll_count =>
          (pc = "after_pass" /\ scroll_count' = scroll_count + 1)]_vars
\* the second scroll has been made although the feed, and so the count, had
\* not changed since the first pass
C13_Witness ==
  /\ pc = "while"
  /\ scroll_count = 2
  /\ pass_count = 2
  /\ feed_events = 0
  /\ pending = <<>>
  /\ previous_count = Len(feed)
  /\ previous_count > 0
  /\ Len(leads) < target_unique_leads

\* C14: rating and reviews are resolved independently: the record of an
\* accepted listing holds the digits of its reviews indicator whenever that
\* indicator is present, also when the stars lookup is absent or raises, and
\* holds the number of its stars label whatever the reviews lookup did.
C14_RatingReviewsIndependent ==
  [][leads' # leads =>
       LET el == ElementOf(Listing)
           rec == leads'[Len(leads')]
       IN /\ IsText(el.reviews) => rec.reviews = clean_field(DigitsOnly(el.reviews))
          /\ ~IsText(el.reviews) => rec.reviews = NA
          /\ rec.rating = clean_field(ResolveRating(el))]_vars

\* the queries of a log that are of the given kinds, in the log's order
QueriesAmong(log, kinds) ==
  LET Keep(q) == q \in kinds IN SelectSeq(log, Keep)
IsPrefix(s, t) == Len(s) <= Len(t) /\ s = SubSeq(t, 1, Len(s))
NameOrder == <<"h3", "headline", "text">>
WebsiteOrder == <<"authority", "labelled", "button", "links", "retry">>
\* a strategy's text that counts as a name
YieldsName(v) == IsText(v) /\ v # NA /\ Strip(v) # <<>>
\* the candidates of a listing's website chain in the stated order, each with
\* the strategy that reads it
WebsiteCandidates(el) ==
  <<[kind |-> "authority", url |-> el.authority],
    [kind |-> "labelled", url |-> el.labelled],
    [kind |-> "button", url |-> el.button]>>
  \o [i \in 1..Len(el.links) |-> [kind |-> "links", url |-> el.links[i]]]
  \o <<[kind |-> "retry", url |-> el.retry]>>
Validated(url) == clean_and_validate_url(url) # NA

\* C15: the strategies of a chain run in the stated order and stop at the
\* first that yields a validated value, which becomes the field.  Name: h3,
\* headline class, first non-empty line of the text.  Website: authority
\* link, Website-labelled link, button class, scan of the links, retry; a
\* candidate that validation rejects is a miss.
C15_FirstStrategyWins ==
  /\ [][(LoopIteration /\ queries' # <<>>) =>
          LET el == ElementOf(Listing)
              ran == QueriesAmong(queries', {"h3", "headline", "text"})
          IN /\ IsPrefix(ran, NameOrder)
             /\ YieldsName(el.h3) => ran = <<"h3">>
             /\ (~YieldsName(el.h3) /\ YieldsName(el.headline)) => ran = <<"h3", "headline">>
             /\ (~YieldsName(el.h3) /\ ~YieldsName(el.headline)) => ran = NameOrder]_vars
  /\ [][leads' # leads =>
          LET el == ElementOf(Listing)
              rec == leads'[Len(leads')]
              lines == IF IsText(el.text) THEN NonEmptyLines(el.text) ELSE <<>>
          IN IF YieldsName(el.h3) THEN rec.name = clean_field(el.h3)
             ELSE IF YieldsName(el.headline) THEN rec.name = clean_field(el.headline)
             ELSE lines # <<>> /\ rec.name = clean_field(lines[1])]_vars
  /\ [][(leads' # leads /\ ElementOf(Listing).hover) =>
          LET el == ElementOf(Listing)
              rec == leads'[Len(leads')]
              cands == WebsiteCandidates(el)
              ran == QueriesAmong(queries', {"authority", "labelled", "button", "links", "retry"})
              hits == {j \in 1..Len(cands) : Validated(cands[j].url)}
          IN /\ IsPrefix(ran, WebsiteOrder)
             /\ hits = {} => (rec.website = NA /\ ran = WebsiteOrder)
             /\ hits # {} =>
                  LET first == CHOOSE j \in hits : \A k \in hits : j <= k
                  IN /\ rec.website = clean_field(clean_and_validate_url(cands[first].url))
                     /\ ran[Len(ran)] = cands[first].kind]_vars
\* the record of "ab " took its website from the scan of the links, after
\* the labelled link was rejected, and the retry did not run
C15_Witness ==
  /\ pc = "for"
  /\ index > 0
  /\ index <= Len(feed)
  /\ feed[index] = 2
  /\ leads # <<>>
  /\ leads[Len(leads)].name = <<"a","b">>
  /\ leads[Len(leads)].website = HTTP \o EX_ORG
  /\ queries = <<"h3", "headline", "stars", "reviews", "card_text", "hover", "wait_for",
                 "authority", "labelled", "button", "links">>

\* the queries that read or await a website link of the listing
WebsiteQueryKinds == {"wait_for", "authority", "labelled", "button", "links", "retry"}

\* C16: an accepted listing is hovered once, before any of its website links
\* is read; when the hover fails no link is read, the website is N/A, and
\* the record is appended with the other fields as resolved, the loop going on.
C16_HoverBeforeWebsite ==
  [][leads' # leads =>
       LET el == ElementOf(Listing)
           rec == leads'[Len(leads')]
           hovers == {i \in 1..Len(queries') : queries'[i] = "hover"}
       IN /\ Cardinality(hovers) = 1
          /\ \A i \in 1..Len(queries') :
               queries'[i] \in WebsiteQueryKinds => \A h \in hovers : h < i
          /\ ~el.hover =>
               /\ \A i \in 1..Len(queries') : queries'[i] \notin WebsiteQueryKinds
               /\ rec.website = NA
               /\ leads' = Append(leads, rec)
               /\ rec.name = clean_field(ResolveName(el))
               /\ rec.phone = clean_phone_number(ResolvePhone(el))
               /\ rec.rating = clean_field(ResolveRating(el))
               /\ rec.reviews = clean_field(ResolveReviews(el))
               /\ pc' = "for"
               /\ outcome' = "running"]_vars
\* "c\nd", whose hover fails, is in the result with its phone and no website
C16_Witness ==
  /\ pc = "for"
  /\ index > 0
  /\ index <= Len(feed)
  /\ feed[index] = 3
  /\ queries = <<"h3", "stars", "card_text", "hover">>
  /\ leads # <<>>
  /\ leads[Len(leads)].name = <<"c"," ","d">>
  /\ leads[Len(leads)].website = NA
  /\ leads[Len(leads)].phone = <<"4","4","1","6","1","1","7","6","5","4","3","2">>

\* C17: a pass works on the listings enumerated at its start: a pass is only
\* entered by enumerating the feed as it is then, every scroll call leads back
\* to the loop head, and queries are only issued in a pass whose enumeration
\* came after the latest scroll call, within the enumerated count.
C17_SnapshotPerPass ==
  /\ [](pc = "for" => pass_count = expand_calls + 1)
  /\ [][(pc' = "for" /\ pc # "for") =>
          (pass_count' = pass_count + 1 /\ current_count' = Len(feed) /\ index' = 0)]_vars
  /\ [][expand_calls' # expand_calls => pc' \in {"while", "raised"}]_vars
  /\ [][queries' # queries =>
          (pc' = "for" /\ pass_count' = expand_calls' + 1 /\ index' <= current_count')]_vars
\* the second pass has resolved a listing that the first enumeration did not
\* hold
C17_Witness ==
  /\ pc = "for"
  /\ pass_count = 2
  /\ expand_calls = 1
  /\ index > previous_count
  /\ index <= current_count
  /\ queries # <<>>
  /\ (index - 1) \in processed_indices

\* the run stands between passes or has ended
AtPassBoundary == pc \in {"while", "after_pass", "final", "done", "raised"}

\* C18: seen_leads and leads stay in lockstep: at every pass boundary and at
\* the end there are as many seen names as records, and every seen name is
\* the normalized name of exactly one record.
C18_SeenLeadsLockstep ==
  AtPassBoundary =>
    /\ Cardinality(seen_leads) = Len(leads)
    /\ \A s \in seen_leads :
         Cardinality({i \in 1..Len(leads) : NormalizedName(leads[i].name) = s}) = 1

\* the loop has ended without an exception
LoopEnded == pc \in {"final", "done"}

\* C19: when the loop has ended, either the result holds target_unique_leads
\* records and scroll_count is below max_scrolls, or the result is under
\* target and scroll_count equals max_scrolls; so the final status names the
\* scroll limit exactly when the target was not reached.
C19_OutcomesExclusive ==
  /\ LoopEnded =>
       \/ (Len(leads) = target_unique_leads /\ scroll_count < max_scrolls)
       \/ (Len(leads) < target_unique_leads /\ scroll_count = max_scrolls)
  /\ pc = "done" =>
       /\ final_status \in {"limit", "finished"}
       /\ final_status = "limit" <=> Len(leads) < target_unique_leads
\* the target was reached in the last pass the budget allowed
C19_Witness ==
  /\ pc = "done"
  /\ final_status = "finished"
  /\ Len(leads) = target_unique_leads
  /\ max_scrolls > 1
  /\ scroll_count = max_scrolls - 1
  /\ pass_count = max_scrolls

\* the listing at position i of the feed has a name the strategies resolve
Resolvable(i) == ~NameMissing(ResolvedName[feed[i]])

\* C20: a pass that ends under target has gone through all its listings:
\* every index below current_count is in processed_indices; and while the
\* feed has only appended, every resolvable name among the listings
\* enumerated has a record of that name (up to case) in leads.
C20_PassVisitsAll ==
  (pc = "after_pass" /\ Len(leads) < target_unique_leads) =>
    /\ \A i \in 0..(current_count - 1) : i \in processed_indices
    /\ ~reflowed =>
         \A i \in 1..current_count :
           Resolvable(i) =>
             \E r \in 1..Len(leads) :
               FoldedName(leads[r]) = Lower(clean_field(ResolvedName[feed[i]]))
\* an append-only feed of three listings, one stored, one its duplicate and
\* one nameless, after the second pass
C20_Witness ==
  /\ pc = "after_pass"
  /\ ~reflowed
  /\ pass_count = 2
  /\ current_count = 3
  /\ Len(leads) = 1
  /\ Len(leads) < target_unique_leads
  /\ processed_indices = {0, 1, 2}
  /\ \E i, j, k \in 1..3 :
       /\ i # j
       /\ Resolvable(i) /\ Resolvable(j)
       /\ ResolvedNormalizedName[feed[i]] = ResolvedNormalizedName[feed[j]]
       /\ feed[i] # feed[j]
       /\ ~Resolvable(k)
====
